---- MODULE Spec2Model ----
(***************************************************************************)
(* Model of standApp.py (BuyTheDeep): the market-session gate              *)
(* check_market_status, the band computation get_stand_strategy, and the   *)
(* Streamlit script that keeps run_mode in the session state.              *)
(*                                                                         *)
(* Conventions                                                             *)
(*  - a str is a sequence of one-character strings; a message is a         *)
(*    sequence of pieces (literal texts, kept in ASCII, and characters     *)
(*    produced by formatting);                                             *)
(*  - a datetime.time is a record [hour, minute, second]; the sub-second   *)
(*    part of now.time() is folded into the second field;                  *)
(*  - a float is a fixed-point integer with Scale units per 1.0; closes    *)
(*    are positive;                                                        *)
(*  - None is the string "None".                                           *)
(***************************************************************************)
EXTENDS Integers, Sequences, FiniteSets, TLC

VARIABLES pc, run_mode, user_ticker, now, hist, fetched, status, res, shown, last

vars == <<pc, run_mode, user_ticker, now, hist, fetched, status, res, shown, last>>

(***************************************************************************)
(* Bounds of the model                                                     *)
(***************************************************************************)
MaxTickerLen == 4
MaxBars == 6
Scale == 10000

None == "None"

(***************************************************************************)
(* Strings                                                                 *)
(***************************************************************************)
Alphabet == {".", "K", "k", "S", "s", "Q"}

UpperChar(c) ==
  CASE c = "k" -> "K"
    [] c = "s" -> "S"
    [] c = "q" -> "Q"
    [] OTHER -> c

upper(s) == [i \in 1..Len(s) |-> UpperChar(s[i])]

endswith(s, suffix) ==
  /\ Len(s) >= Len(suffix)
  /\ SubSeq(s, Len(s) - Len(suffix) + 1, Len(s)) = suffix

DigitChar(d) ==
  CASE d = 0 -> "0" [] d = 1 -> "1" [] d = 2 -> "2" [] d = 3 -> "3"
    [] d = 4 -> "4" [] d = 5 -> "5" [] d = 6 -> "6" [] d = 7 -> "7"
    [] d = 8 -> "8" [] d = 9 -> "9"

\* %H, %M, %m, %d : two digits, zero padded
Pad2(n) == <<DigitChar((n \div 10) % 10), DigitChar(n % 10)>>

\* %Y : four digits, zero padded
Pad4(n) == Pad2(n \div 100) \o Pad2(n % 100)

(***************************************************************************)
(* datetime.time                                                           *)
(***************************************************************************)
time(h, m, s) == [hour |-> h, minute |-> m, second |-> s]

\* a <= b on datetime.time
TimeLeq(a, b) ==
  \/ a.hour < b.hour
  \/ a.hour = b.hour /\ a.minute < b.minute
  \/ a.hour = b.hour /\ a.minute = b.minute /\ a.second <= b.second

strftime_HM(t) == Pad2(t.hour) \o <<":">> \o Pad2(t.minute)

(***************************************************************************)
(* check_market_status                                                     *)
(***************************************************************************)
MSG_WEEKEND == <<"WEEKEND: market does not open">>
MSG_KR_OPEN == <<"KR regular session open">>
MSG_US_OPEN == <<"US regular session open">>
MSG_FORCED == <<" (forced run)">>
MSG_KR_CLOSED == <<"not KR market hours (KST now: ">>
MSG_US_CLOSED == <<"not US market hours (KST now: ">>
MSG_CLOSE_PAREN == <<")">>
MSG_NO_DATA == <<"failed to load data">>

MOCK_KR_TIME == time(14, 0, 0)
MOCK_US_TIME == time(1, 0, 0)
MOCK_WEEKDAY == 2

current_time_mut(mode, n) ==
  IF mode = "MOCK_KR" THEN MOCK_KR_TIME ELSE n.time

current_time(mode, n) ==
  IF mode = "MOCK_KR" THEN MOCK_KR_TIME
  ELSE IF mode = "MOCK_US" THEN MOCK_US_TIME
  ELSE n.time

weekday(mode, n) ==
  IF mode = "MOCK_KR" THEN MOCK_WEEKDAY
  ELSE IF mode = "MOCK_US" THEN MOCK_WEEKDAY
  ELSE n.weekday

is_mock(mode) == mode = "MOCK_KR" \/ mode = "MOCK_US"

IsWeekend_mut(wd) == wd >= 6

IsWeekend(wd) == wd >= 5

IsDomestic_mut(ticker_code) ==
  \/ endswith(ticker_code, <<".", "K", "S">>)
  \/ endswith(ticker_code, <<".", "K", "Q">>)

IsDomestic(ticker_code) ==
  \/ endswith(upper(ticker_code), <<".", "K", "S">>)
  \/ endswith(upper(ticker_code), <<".", "K", "Q">>)

KR_START == time(9, 20, 0)
KR_END == time(15, 30, 0)

InKrWindow_mut(t) == TimeLeq(KR_START, t) /\ TimeLeq(t, KR_END) /\ t # KR_END

InKrWindow(t) == TimeLeq(KR_START, t) /\ TimeLeq(t, KR_END)

US_START == time(23, 50, 0)
US_END == time(6, 0, 0)

InUsWindow_mut(t) == TimeLeq(US_START, t) /\ TimeLeq(t, US_END)

InUsWindow(t) == TimeLeq(US_START, t) \/ TimeLeq(t, US_END)

Forced(mode) == IF is_mock(mode) THEN MSG_FORCED ELSE <<>>

check_market_status(ticker_code, mode, n) ==
  LET t == current_time(mode, n)
      wd == weekday(mode, n)
  IN IF IsWeekend(wd)
       THEN [is_open |-> FALSE, msg |-> MSG_WEEKEND]
     ELSE IF IsDomestic(ticker_code)
       THEN IF InKrWindow(t)
              THEN [is_open |-> TRUE, msg |-> MSG_KR_OPEN \o Forced(mode)]
              ELSE [is_open |-> FALSE,
                    msg |-> MSG_KR_CLOSED \o strftime_HM(t) \o MSG_CLOSE_PAREN]
     ELSE IF InUsWindow(t)
              THEN [is_open |-> TRUE, msg |-> MSG_US_OPEN \o Forced(mode)]
              ELSE [is_open |-> FALSE,
                    msg |-> MSG_US_CLOSED \o strftime_HM(t) \o MSG_CLOSE_PAREN]

(***************************************************************************)
(* Floats: [nan, v] with v in units of 1/Scale                             *)
(***************************************************************************)
NaN == [nan |-> TRUE, v |-> 0]

float(x) == [nan |-> FALSE, v |-> x]

\* a <= b on floats: every comparison with NaN is False
FLeq(a, b) == ~a.nan /\ ~b.nan /\ a.v <= b.v

RECURSIVE SumSeq(_)
SumSeq(s) == IF s = <<>> THEN 0 ELSE Head(s) + SumSeq(Tail(s))

RECURSIVE ISqrtIn(_, _, _)
\* the largest r in lo..hi with r * r <= x
ISqrtIn(lo, hi, x) ==
  IF lo >= hi THEN lo
  ELSE LET mid == (lo + hi + 1) \div 2
       IN IF mid * mid <= x THEN ISqrtIn(mid, hi, x) ELSE ISqrtIn(lo, mid - 1, x)

sqrt(x) == ISqrtIn(0, x, x)

\* Series.pct_change(): close[i] / close[i-1] - 1, NaN at the first row
pct_change(close) ==
  [i \in 1..Len(close) |->
     IF i = 1 THEN NaN
     ELSE float((close[i] * Scale) \div close[i - 1] - Scale)]

\* the values of the rows that are not NaN (skipna)
dropna(col) ==
  LET kept == SelectSeq(col, LAMBDA x : ~x.nan)
  IN [i \in 1..Len(kept) |-> kept[i].v]

\* Series.mean()
mean(col) ==
  LET xs == dropna(col)
  IN IF Len(xs) = 0 THEN NaN ELSE float(SumSeq(xs) \div Len(xs))

\* Series.std(): sample standard deviation, divisor n - 1
std(col) ==
  LET xs == dropna(col)
      n == Len(xs)
      sq == [i \in 1..n |-> xs[i] * xs[i]]
  IN IF n < 2 THEN NaN
     ELSE float(sqrt((n * SumSeq(sq) - SumSeq(xs) * SumSeq(xs)) \div (n * (n - 1))))

\* base_close * (1 + mean + k * std)
band(base_close, m, sd, k) ==
  IF base_close.nan \/ m.nan \/ sd.nan THEN NaN
  ELSE float((base_close.v * (Scale + m.v + k * sd.v)) \div Scale)

strftime_Ymd(d) ==
  Pad4(d.year) \o <<"-">> \o Pad2(d.month) \o <<"-">> \o Pad2(d.day)

(***************************************************************************)
(* get_stand_strategy                                                      *)
(***************************************************************************)
TooShort_mut(h) == Len(h) < 4

TooShort(h) == Len(h) < 5

confirmed_mut(h) == h

\* hist.iloc[:-1]
confirmed(h) == SubSeq(h, 1, Len(h) - 1)

\* the statistics part, for a history that passed the length test
compute_band(msg, h) ==
  LET base_close == float(h[Len(h) - 1].Close)
      base_date == strftime_Ymd(h[Len(h) - 1].date)
      current_price == float(h[Len(h)].Close)
      conf == confirmed(h)
      Return == pct_change([i \in 1..Len(conf) |-> conf[i].Close])
      confirmed_df == [i \in 1..Len(conf) |->
                         [date |-> conf[i].date, Close |-> conf[i].Close,
                          Return |-> Return[i]]]
      m == mean(Return)
      sd == std(Return)
  IN [status_msg |-> msg,
      current_price |-> current_price,
      base_close |-> base_close,
      base_date |-> base_date,
      buy_target |-> band(base_close, m, sd, -2),
      sell_target |-> band(base_close, m, sd, 2),
      mean |-> m,
      std |-> sd,
      df |-> confirmed_df]

\* the order of the two tests exchanged
get_stand_strategy_mut(ticker_code, mode, n, provider) ==
  LET st == check_market_status(ticker_code, mode, n)
  IN IF TooShort(provider)
       THEN [fetched |-> TRUE, gate |-> st, out |-> [error |-> MSG_NO_DATA]]
     ELSE IF ~st.is_open
       THEN [fetched |-> TRUE, gate |-> st, out |-> [error |-> st.msg]]
     ELSE [fetched |-> TRUE, gate |-> st, out |-> compute_band(st.msg, provider)]

\* out is the returned dict; fetched tells whether ticker.history() was
\* called; gate is the value check_market_status returned
get_stand_strategy(ticker_code, mode, n, provider) ==
  LET st == check_market_status(ticker_code, mode, n)
  IN IF ~st.is_open
       THEN [fetched |-> FALSE, gate |-> st, out |-> [error |-> st.msg]]
     ELSE IF TooShort(provider)
       THEN [fetched |-> TRUE, gate |-> st, out |-> [error |-> MSG_NO_DATA]]
     ELSE [fetched |-> TRUE, gate |-> st, out |-> compute_band(st.msg, provider)]

(***************************************************************************)
(* The page: what one run of the script displays                           *)
(***************************************************************************)
NoMsg == <<>>
NoStatus == [is_open |-> FALSE, msg |-> NoMsg]
NoRes == [none |-> TRUE]
Blank == [warning |-> NoMsg, success |-> NoMsg, alert |-> None, reset_button |-> FALSE]

IsError(r) == "error" \in DOMAIN r
IsBand(r) == "buy_target" \in DOMAIN r

classify_mut(r) ==
  IF r.current_price.v < r.buy_target.v THEN "BelowBand"
  ELSE IF r.current_price.v > r.sell_target.v THEN "AboveBand"
  ELSE "WithinBand"

\* st.error / st.success / st.info of the state alert
classify(r) ==
  IF FLeq(r.current_price, r.buy_target) THEN "BelowBand"
  ELSE IF FLeq(r.sell_target, r.current_price) THEN "AboveBand"
  ELSE "WithinBand"

display(r) ==
  IF IsError(r)
    THEN [warning |-> r.error, success |-> NoMsg, alert |-> None,
          reset_button |-> FALSE]
    ELSE [warning |-> NoMsg, success |-> r.status_msg, alert |-> classify(r),
          reset_button |-> TRUE]

Modes == {"REAL", "MOCK_KR", "MOCK_US"}

script_mut(pressed, ticker, n, provider) ==
  LET mode == IF pressed \in Modes THEN pressed ELSE run_mode
  IN /\ user_ticker' = ticker
     /\ now' = n
     /\ hist' = provider
     /\ IF mode = None
          THEN /\ run_mode' = None
               /\ fetched' = FALSE
               /\ status' = NoStatus
               /\ res' = NoRes
               /\ shown' = Blank
          ELSE LET r == get_stand_strategy(ticker, mode, n, provider)
               IN IF IsError(r.out)
                    THEN /\ run_mode' = None
                         /\ fetched' = r.fetched
                         /\ status' = r.gate
                         /\ res' = r.out
                         /\ shown' = display(r.out)
                  ELSE IF pressed = "RESET"
                    THEN /\ run_mode' = None
                         /\ fetched' = FALSE
                         /\ status' = NoStatus
                         /\ res' = NoRes
                         /\ shown' = Blank
                  ELSE /\ run_mode' = mode
                       /\ fetched' = r.fetched
                       /\ status' = r.gate
                       /\ res' = r.out
                       /\ shown' = display(r.out)

\* One run of the script, top to bottom.  pressed is the button whose click
\* caused the run ("none" for any other cause); the reset button returns
\* True only when the run reaches it, and st.rerun() then runs the script
\* once more with run_mode None.
script(pressed, ticker, n, provider) ==
  LET mode == IF pressed \in Modes THEN pressed ELSE run_mode
  IN /\ user_ticker' = ticker
     /\ now' = n
     /\ hist' = provider
     /\ IF mode = None
          THEN /\ run_mode' = None
               /\ fetched' = FALSE
               /\ status' = NoStatus
               /\ res' = NoRes
               /\ shown' = Blank
          ELSE LET r == get_stand_strategy(ticker, mode, n, provider)
               IN IF pressed = "RESET" /\ ~IsError(r.out)
                    THEN /\ run_mode' = None
                         /\ fetched' = FALSE
                         /\ status' = NoStatus
                         /\ res' = NoRes
                         /\ shown' = Blank
                    ELSE /\ run_mode' = mode
                         /\ fetched' = r.fetched
                         /\ status' = r.gate
                         /\ res' = r.out
                         /\ shown' = display(r.out)

(***************************************************************************)
(* Inputs                                                                  *)
(***************************************************************************)
Weekdays == 0..6

GateTimes ==
  {time(h, m, sec) : h \in {0, 6, 9, 15, 23},
                     m \in {0, 1, 19, 20, 30, 31, 49, 50, 59},
                     sec \in {0, 1}}

GateNows == {[weekday |-> wd, time |-> t] : wd \in Weekdays, t \in GateTimes}

QQQ == <<"Q", "Q", "Q">>
SAMSUNG == <<"0", "0", "5", "9", "3", "0", ".", "K", "S">>

SampleTickers ==
  {QQQ, SAMSUNG, <<>>, <<"5", ".", "k", "s">>, <<"5", ".", "K", "q">>,
   <<".", "K", "S", "5">>}

AllTickers == UNION {[1..n -> Alphabet] : n \in 0..MaxTickerLen}

Wed(h, m) == [weekday |-> 2, time |-> time(h, m, 0)]
Sat(h, m) == [weekday |-> 5, time |-> time(h, m, 0)]

FewNows == {Wed(10, 0), Wed(0, 30), Sat(10, 0)}

BandNows == {Wed(10, 0), Sat(10, 0)}

Closes == {9900, 10000, 10100}

DateOf(i) == [year |-> 2024, month |-> 3, day |-> i]

\* daily bars, ascending by date
bars(close) == [i \in 1..Len(close) |-> [date |-> DateOf(i), Close |-> close[i]]]

closes_of(h) == [i \in 1..Len(h) |-> h[i].Close]

\* the quotes tried for the live bar: the usual closes and the two targets
\* that the confirmed closes determine
LiveCloses(conf) ==
  Closes \cup
    (IF Len(conf) < 3 THEN {}
     ELSE LET r == pct_change(conf)
              b == float(conf[Len(conf)])
          IN {band(b, mean(r), std(r), -2).v, band(b, mean(r), std(r), 2).v})

Hists ==
  {<<>>} \cup
  UNION {{bars(conf \o <<live>>) : live \in LiveCloses(conf)} :
           conf \in UNION {[1..n -> Closes] : n \in 0..(MaxBars - 1)}}

UiHists ==
  {<<>>,
   bars(<<10000, 10100, 9900, 10000>>),
   bars(<<10000, 10100, 9900, 10000, 10100>>),
   bars(<<10000, 10000, 10000, 10000, 10000, 9900>>)}

(***************************************************************************)
(* The session gate as a function of its inputs                            *)
(***************************************************************************)
InitGateWith(tickers, nows) ==
  /\ pc = "input"
  /\ run_mode \in Modes
  /\ user_ticker \in tickers
  /\ now \in nows
  /\ hist = <<>>
  /\ fetched = FALSE
  /\ status = NoStatus
  /\ res = NoRes
  /\ shown = Blank
  /\ last = "init"

InitGate == InitGateWith(SampleTickers, GateNows)

InitTicker == InitGateWith(AllTickers, FewNows)

GateEvaluate ==
  /\ pc = "input"
  /\ status' = check_market_status(user_ticker, run_mode, now)
  /\ pc' = "done"
  /\ UNCHANGED <<run_mode, user_ticker, now, hist, fetched, res, shown, last>>

NextGate == GateEvaluate

SpecGate == InitGate /\ [][NextGate]_vars

SpecTicker == InitTicker /\ [][NextGate]_vars

(***************************************************************************)
(* The analysis as a function of its inputs                                *)
(***************************************************************************)
InitBand ==
  /\ pc = "input"
  /\ run_mode \in Modes
  /\ user_ticker \in {QQQ, SAMSUNG}
  /\ now \in BandNows
  /\ hist \in Hists
  /\ fetched = FALSE
  /\ status = NoStatus
  /\ res = NoRes
  /\ shown = Blank
  /\ last = "init"

Analyze ==
  /\ pc = "input"
  /\ script("none", user_ticker, now, hist)
  /\ pc' = "done"
  /\ last' = "analyze"

\* the provider's live bar moves; everything else stays
LiveTick ==
  /\ pc = "done"
  /\ Len(hist) >= 1
  /\ \E c \in LiveCloses(closes_of(SubSeq(hist, 1, Len(hist) - 1))) :
       /\ c # hist[Len(hist)].Close
       /\ script("none", user_ticker, now, [hist EXCEPT ![Len(hist)].Close = c])
  /\ pc' = "done"
  /\ last' = "live"

NextBand == Analyze \/ LiveTick

SpecBand == InitBand /\ [][NextBand]_vars

(***************************************************************************)
(* The Streamlit session                                                   *)
(***************************************************************************)
Init ==
  /\ pc = "ui"
  /\ run_mode = None
  /\ user_ticker = SAMSUNG
  /\ now \in FewNows
  /\ hist = <<>>
  /\ fetched = FALSE
  /\ status = NoStatus
  /\ res = NoRes
  /\ shown = Blank
  /\ last = "init"

Run(pressed, ticker, event) ==
  /\ \E n \in FewNows, provider \in UiHists : script(pressed, ticker, n, provider)
  /\ pc' = "ui"
  /\ last' = event

PressReal ==
  /\ pc = "ui"
  /\ Run("REAL", user_ticker, "REAL")

PressMockKr ==
  /\ pc = "ui"
  /\ Run("MOCK_KR", user_ticker, "MOCK_KR")

PressMockUs ==
  /\ pc = "ui"
  /\ Run("MOCK_US", user_ticker, "MOCK_US")

\* the reset button can be clicked only while the page shows it
PressReset ==
  /\ pc = "ui"
  /\ shown.reset_button
  /\ Run("RESET", user_ticker, "RESET")

EditTicker ==
  /\ pc = "ui"
  /\ \E t \in {QQQ, SAMSUNG} \ {user_ticker} : Run("none", t, "edit")

Rerun ==
  /\ pc = "ui"
  /\ Run("none", user_ticker, "rerun")

Next == PressReal \/ PressMockKr \/ PressMockUs \/ PressReset \/ EditTicker \/ Rerun

Spec == Init /\ [][Next]_vars

(***************************************************************************)
(* Properties                                                              *)
(***************************************************************************)
SecOfDay(t) == t.hour * 3600 + t.minute * 60 + t.second

\* the instant the gate evaluates, stated from the mode table
EvalSec ==
  CASE run_mode = "MOCK_KR" -> 14 * 3600
    [] run_mode = "MOCK_US" -> 1 * 3600
    [] OTHER -> SecOfDay(now.time)

EvalWeekday ==
  CASE run_mode = "MOCK_KR" -> 2
    [] run_mode = "MOCK_US" -> 2
    [] OTHER -> now.weekday

EvalHHMM ==
  LET h == EvalSec \div 3600
      m == (EvalSec % 3600) \div 60
  IN <<DigitChar(h \div 10), DigitChar(h % 10), ":",
       DigitChar(m \div 10), DigitChar(m % 10)>>

Contains(msg, sub) ==
  \E i \in 1..(Len(msg) - Len(sub) + 1) : SubSeq(msg, i, i + Len(sub) - 1) = sub

\* the ticker ends with .KS or .KQ in any letter case
HasKrSuffix(t) ==
  /\ Len(t) >= 3
  /\ t[Len(t) - 2] = "."
  /\ t[Len(t) - 1] \in {"K", "k"}
  /\ t[Len(t)] \in {"S", "s", "Q", "q"}

GateDone == pc = "done"

\* C1: whenever the evaluated weekday is Saturday or Sunday the gate returns
\* closed with the fixed weekend reason, for every ticker and time-of-day.
C1_WeekendClosed ==
  (GateDone /\ EvalWeekday \in {5, 6}) =>
    (status.is_open = FALSE /\ status.msg = MSG_WEEKEND)

C1_Witness ==
  /\ GateDone
  /\ run_mode = "REAL"
  /\ now.weekday = 5
  /\ now.time = time(9, 30, 0)
  /\ user_ticker = SAMSUNG
  /\ status.msg = MSG_WEEKEND

\* C2 as stated: for a foreign ticker on a weekday the gate is open iff
\* time >= 23:20 or time <= 06:00.
C2_Original ==
  (GateDone /\ ~HasKrSuffix(user_ticker) /\ EvalWeekday < 5) =>
    (status.is_open <=> (EvalSec >= 23 * 3600 + 20 * 60 \/ EvalSec <= 6 * 3600))

\* C2 (amended): for a foreign ticker on a weekday the gate is open iff
\* time >= 23:50 or time <= 06:00, both boundaries included.
C2_UsWindow ==
  (GateDone /\ ~HasKrSuffix(user_ticker) /\ EvalWeekday < 5) =>
    (status.is_open <=> (EvalSec >= 23 * 3600 + 50 * 60 \/ EvalSec <= 6 * 3600))

C2_Witness ==
  /\ GateDone
  /\ run_mode = "REAL"
  /\ user_ticker = QQQ
  /\ now.weekday = 0
  /\ now.time = time(23, 50, 0)
  /\ status.is_open

\* C3: for a domestic ticker on a weekday the gate is open iff
\* 09:20 <= time <= 15:30, and every closed result carries the evaluated
\* time-of-day as HH:MM in its reason.
C3_KrWindow ==
  (GateDone /\ HasKrSuffix(user_ticker) /\ EvalWeekday < 5) =>
    /\ status.is_open <=> (9 * 3600 + 20 * 60 <= EvalSec /\ EvalSec <= 15 * 3600 + 30 * 60)
    /\ ~status.is_open => Contains(status.msg, EvalHHMM)

C3_Witness ==
  /\ GateDone
  /\ run_mode = "REAL"
  /\ user_ticker = SAMSUNG
  /\ now.weekday = 4
  /\ now.time = time(15, 30, 0)
  /\ status.is_open

\* C8: a ticker gets the domestic window iff it ends with .KS or .KQ in any
\* letter case; every other ticker gets the foreign window.
C8_Classification ==
  (GateDone /\ EvalWeekday < 5) =>
    IF HasKrSuffix(user_ticker)
      THEN /\ Head(status.msg) \in {MSG_KR_OPEN[1], MSG_KR_CLOSED[1]}
           /\ status.is_open <=>
                (9 * 3600 + 20 * 60 <= EvalSec /\ EvalSec <= 15 * 3600 + 30 * 60)
      ELSE /\ Head(status.msg) \in {MSG_US_OPEN[1], MSG_US_CLOSED[1]}
           /\ status.is_open <=>
                (EvalSec >= 23 * 3600 + 50 * 60 \/ EvalSec <= 6 * 3600)

C8_Witness ==
  /\ GateDone
  /\ run_mode = "REAL"
  /\ user_ticker = <<"Q", ".", "k", "s">>
  /\ status.msg = MSG_KR_OPEN

\* C9: in a forced mode the result is a function of the ticker alone (the
\* wall clock does not appear in it): MOCK_KR is open iff the ticker is
\* domestic, MOCK_US iff it is foreign; an open result carries the forced
\* annotation iff the mode is a forced one.
C9_ForcedModes ==
  GateDone =>
    /\ run_mode = "MOCK_KR" =>
         status = IF HasKrSuffix(user_ticker)
                    THEN [is_open |-> TRUE, msg |-> MSG_KR_OPEN \o MSG_FORCED]
                    ELSE [is_open |-> FALSE,
                          msg |-> MSG_US_CLOSED \o <<"1", "4", ":", "0", "0">> \o MSG_CLOSE_PAREN]
    /\ run_mode = "MOCK_US" =>
         status = IF HasKrSuffix(user_ticker)
                    THEN [is_open |-> FALSE,
                          msg |-> MSG_KR_CLOSED \o <<"0", "1", ":", "0", "0">> \o MSG_CLOSE_PAREN]
                    ELSE [is_open |-> TRUE, msg |-> MSG_US_OPEN \o MSG_FORCED]
    /\ status.is_open => (Contains(status.msg, MSG_FORCED) <=> run_mode # "REAL")

C9_Witness ==
  /\ GateDone
  /\ run_mode = "MOCK_US"
  /\ now.weekday = 6
  /\ now.time = time(9, 30, 0)
  /\ user_ticker = QQQ
  /\ status.is_open

BandFields ==
  {"status_msg", "current_price", "base_close", "base_date", "buy_target",
   "sell_target", "mean", "std", "df"}

\* C4: when the gate returns closed the analysis returns the gate's reason
\* as its error without fetching the history, and a result is either an
\* error alone or a complete band.
C4_ClosedFailsFirst ==
  GateDone =>
    /\ DOMAIN res = {"error"} \/ DOMAIN res = BandFields
    /\ ~status.is_open =>
         /\ DOMAIN res = {"error"}
         /\ res.error = status.msg
         /\ ~fetched

C4_Witness ==
  /\ GateDone
  /\ ~status.is_open
  /\ Len(hist) = 3
  /\ res = [error |-> MSG_WEEKEND]
  /\ ~fetched

\* C5 as stated: a history of fewer than 5 bars fails with the
\* insufficient-history error whatever the gate reports.
C5_Original ==
  (GateDone /\ Len(hist) < 5) => res = [error |-> MSG_NO_DATA]

\* C5 (amended): a history of fewer than 5 bars never produces a band; the
\* error is the insufficient-history one when the gate reports open and the
\* gate's reason when it reports closed.
C5_ShortHistory ==
  (GateDone /\ Len(hist) < 5) =>
    /\ DOMAIN res = {"error"}
    /\ status.is_open => res.error = MSG_NO_DATA
    /\ ~status.is_open => res.error = status.msg

C5_Witness ==
  /\ GateDone
  /\ status.is_open
  /\ Len(hist) = 4
  /\ res = [error |-> MSG_NO_DATA]

\* C6: a band result gets exactly one class: BelowBand iff live <= buy,
\* otherwise AboveBand iff live >= sell, otherwise WithinBand.
C6_Classification ==
  (GateDone /\ IsBand(res)) =>
    LET live == res.current_price.v
        buy == res.buy_target.v
        sell == res.sell_target.v
    IN /\ shown.alert \in {"BelowBand", "AboveBand", "WithinBand"}
       /\ shown.alert = "BelowBand" <=> live <= buy
       /\ shown.alert = "AboveBand" <=> (live > buy /\ live >= sell)
       /\ shown.alert = "WithinBand" <=> (live > buy /\ live < sell)

\* both tests hold at once and BelowBand wins
C6_Witness ==
  /\ GateDone
  /\ IsBand(res)
  /\ res.current_price = res.buy_target
  /\ res.current_price = res.sell_target
  /\ shown.alert = "BelowBand"

C6_SellBoundaryReached ==
  /\ GateDone
  /\ IsBand(res)
  /\ res.buy_target.v < res.sell_target.v
  /\ res.current_price = res.sell_target
  /\ shown.alert = "AboveBand"

C6_BuyBoundaryReached ==
  /\ GateDone
  /\ IsBand(res)
  /\ res.buy_target.v < res.sell_target.v
  /\ res.current_price = res.buy_target
  /\ shown.alert = "BelowBand"

\* the return of bar i of the fetched history
RetAt(i) == (hist[i].Close * Scale) \div hist[i - 1].Close - Scale

RECURSIVE SumRet(_, _)
SumRet(i, j) == IF i > j THEN 0 ELSE RetAt(i) + SumRet(i + 1, j)

RECURSIVE SumRetSq(_, _)
SumRetSq(i, j) == IF i > j THEN 0 ELSE RetAt(i) * RetAt(i) + SumRetSq(i + 1, j)

C7_State ==
  (GateDone /\ IsBand(res)) =>
    LET n == Len(hist)
        k == n - 2
        sum == SumRet(2, n - 1)
        var == (k * SumRetSq(2, n - 1) - sum * sum) \div (k * (k - 1))
    IN /\ n >= 5
       /\ res.base_close = float(hist[n - 1].Close)
       /\ res.base_date = <<"2", "0", "2", "4", "-", "0", "3", "-", "0", DigitChar(n - 1)>>
       /\ res.current_price = float(hist[n].Close)
       /\ Len(res.df) = n - 1
       /\ \A i \in 1..(n - 1) :
            /\ res.df[i].date = hist[i].date
            /\ res.df[i].Close = hist[i].Close
            /\ res.df[i].Return = IF i = 1 THEN NaN ELSE float(RetAt(i))
       /\ Cardinality({i \in 1..(n - 1) : ~res.df[i].Return.nan}) = k
       /\ ~res.mean.nan /\ ~res.std.nan
       /\ res.mean.v * k <= sum /\ sum < (res.mean.v + 1) * k
       /\ res.std.v >= 0
       /\ res.std.v * res.std.v <= var /\ var < (res.std.v + 1) * (res.std.v + 1)
       /\ res.buy_target.v = (hist[n - 1].Close * (Scale + res.mean.v - 2 * res.std.v)) \div Scale
       /\ res.sell_target.v = (hist[n - 1].Close * (Scale + res.mean.v + 2 * res.std.v)) \div Scale

C7_Step ==
  (/\ GateDone /\ pc' = "done"
   /\ IsBand(res) /\ IsBand(res')
   /\ SubSeq(hist', 1, Len(hist') - 1) = SubSeq(hist, 1, Len(hist) - 1)) =>
    /\ res'.mean = res.mean
    /\ res'.std = res.std
    /\ res'.buy_target = res.buy_target
    /\ res'.sell_target = res.sell_target
    /\ res'.base_close = res.base_close
    /\ res'.base_date = res.base_date
    /\ res'.current_price = float(hist'[Len(hist')].Close)

\* C7: anchor = second-to-last bar, live price = last bar, the statistics are
\* those of the length - 2 returns of the bars before the last, and a change
\* of the last close alone leaves mean, std and both targets as they were.
C7_ConfirmedOnly == [](C7_State) /\ [][C7_Step]_vars

C7_Witness ==
  /\ GateDone
  /\ last = "live"
  /\ IsBand(res)
  /\ Len(hist) = 5
  /\ res.std.v > 0
  /\ res.current_price.v # hist[4].Close

\* C10: run_mode starts as None and stays within its four values; nothing is
\* analysed while it is None; a mode button sets it, a rerun keeps it, only
\* the reset button (offered after a successful analysis) returns it to
\* None; after a failed analysis it stays set and the analysis runs again.
C10_State ==
  /\ run_mode \in {None, "REAL", "MOCK_KR", "MOCK_US"}
  /\ run_mode = None => (res = NoRes /\ ~fetched /\ shown = Blank)
  /\ run_mode # None => res # NoRes
  /\ shown.reset_button => (IsBand(res) /\ run_mode # None)
  /\ IsError(res) => ~shown.reset_button

C10_Step ==
  /\ last' \in Modes => run_mode' = last'
  /\ last' \in {"edit", "rerun"} => run_mode' = run_mode
  /\ (run_mode # None /\ run_mode' = None) =>
       (last' = "RESET" /\ shown.reset_button /\ IsBand(res))
  /\ (run_mode # None /\ IsError(res)) =>
       (run_mode' # None /\ res' # NoRes /\ (last' \notin Modes => run_mode' = run_mode))

C10_RunMode == (run_mode = None) /\ [](C10_State) /\ [][C10_Step]_vars

C10_Witness ==
  /\ pc = "ui"
  /\ last = "rerun"
  /\ run_mode = "REAL"
  /\ IsError(res)
  /\ res.error = MSG_NO_DATA

C10_ResetReached ==
  /\ pc = "ui"
  /\ last = "RESET"
  /\ run_mode = None

====
